---- MODULE Spec2Model ----
(***************************************************************************)
(* Model of themes/coffeepsite/assets/js/main.js: the DOMContentLoaded     *)
(* handler and the listeners it attaches (menu, language dropdown, theme). *)
(* A click is dispatched the way the DOM does it: the listeners on the     *)
(* path from the target up to the document run one after the other, each   *)
(* to completion, unless one of them stops the propagation.                *)
(***************************************************************************)
EXTENDS Integers, Sequences, FiniteSets, TLC

VARIABLES
  present,       \* selectors that document.querySelector finds in the page
  inHeader,      \* click targets for which closest('.header-wrapper') is non-null
  ariaExpanded,  \* aria-expanded attribute of .menu-toggle
  menuIsOpen,    \* is-open class on .header-menu
  bodyOverflow,  \* document.body.style.overflow
  langIsOpen,    \* is-open class on .lang-dropdown
  dataTheme,     \* data-theme attribute of the document root
  storedTheme,   \* localStorage item 'theme'
  storageMode,   \* how localStorage behaves in this browser profile
  innerWidth,    \* window.innerWidth
  listeners,     \* listeners attached by the DOMContentLoaded handler
  loaded,        \* the DOMContentLoaded handler has run
  uncaught,      \* the last handler that ran ended with an uncaught exception
  markupAria,    \* aria-expanded of .menu-toggle as written in the markup
  ev,            \* the event being dispatched, or the last one dispatched
  pre            \* the page state when that event was raised; across a reload,
                 \* the state of the page that the reload discarded

vars == <<present, inHeader, ariaExpanded, menuIsOpen, bodyOverflow, langIsOpen,
          dataTheme, storedTheme, storageMode, innerWidth, listeners, loaded,
          uncaught, markupAria, ev, pre>>

----------------------------------------------------------------------------
(* Values *)

NULL == "null"

Breakpoint == 768

\* Viewport widths tried: the breakpoint and Margin pixels on either side.
Margin == 1

Widths == (Breakpoint - Margin)..(Breakpoint + Margin)

Selectors == {"menuToggle", "headerMenu", "langToggle", "langDropdown", "themeToggle"}

\* Where a click can land: on one of the three controls, elsewhere inside
\* .header-wrapper, or elsewhere on the page.
Targets == {"menuToggle", "langToggle", "themeToggle", "header", "page"}

\* What the 'theme' item can hold when the page loads.
StoredValues == {NULL, "", "light", "dark", "sepia"}

\* "unavailable": every access to localStorage throws (storage disabled);
\* "writeThrows": getItem works and setItem throws (quota exceeded).
StorageModes == {"ok", "unavailable", "writeThrows"}

\* The markup puts the menu trigger inside .header-wrapper.
TriggerInHeader == {"menuToggle", "header"}

\* JavaScript truthiness of a string-or-null value.
Truthy(v) == v # NULL /\ v # ""

\* a || b
OrElse(a, b) == IF Truthy(a) THEN a ELSE b

\* String(b), as setAttribute does to a boolean argument.
BoolToString(b) == IF b THEN "true" ELSE "false"

\* classList.add in place of classList.toggle.
ClassListToggle_Add(has) == TRUE

\* classList.toggle('is-open'): the class is there afterwards iff it was not.
ClassListToggle(has) == ~has

----------------------------------------------------------------------------
(* The page as parsed, before DOMContentLoaded *)

MarkupState ==
  /\ ariaExpanded = markupAria
  /\ menuIsOpen = FALSE
  /\ bodyOverflow = ""
  /\ langIsOpen = FALSE
  /\ dataTheme = NULL
  /\ listeners = {}
  /\ loaded = FALSE
  /\ uncaught = FALSE

Snapshot == [aria |-> ariaExpanded, open |-> menuIsOpen, overflow |-> bodyOverflow,
             lang |-> langIsOpen, theme |-> dataTheme]

NoEvent == [kind |-> "none", target |-> "none", path |-> <<>>, ran |-> <<>>,
            dismissed |-> FALSE]

Init ==
  /\ present \in SUBSET Selectors
  /\ inHeader \in {TriggerInHeader \cup s : s \in SUBSET {"langToggle", "themeToggle"}}
  /\ markupAria \in {NULL, "false"}
  /\ MarkupState
  /\ storedTheme \in StoredValues
  /\ storageMode \in StorageModes
  /\ innerWidth \in Widths
  /\ ev = NoEvent
  /\ pre = Snapshot

----------------------------------------------------------------------------
(* Initialization: the DOMContentLoaded handler *)

\* || in place of &&: one of the two elements is enough.
MenuListeners_EitherElement ==
  IF "menuToggle" \in present \/ "headerMenu" \in present
    THEN {"menuToggle.click", "document.click", "window.resize"}
    ELSE {}

\* Lines 5-28: the three menu listeners, attached only when both elements exist.
MenuListeners ==
  IF "menuToggle" \in present /\ "headerMenu" \in present
    THEN {"menuToggle.click", "document.click", "window.resize"}
    ELSE {}

\* Lines 33-38: the dropdown listener, attached only on a narrow viewport.
LangListeners ==
  IF "langToggle" \in present /\ "langDropdown" \in present /\ innerWidth <= Breakpoint
    THEN {"langToggle.click"}
    ELSE {}

\* Lines 46-53.
ThemeListeners == IF "themeToggle" \in present THEN {"themeToggle.click"} ELSE {}

\* The default left out.
currentTheme_NoDefault == storedTheme

\* Line 42: localStorage.getItem('theme') || 'light'
currentTheme == OrElse(storedTheme, "light")

\* The theme section (lines 40-53) placed at the top of the handler: a throwing
\* storage read ends the handler before any listener is attached.
DOMContentLoaded_ReadsStorageFirst ==
  /\ ~loaded
  /\ loaded' = TRUE
  /\ IF storageMode = "unavailable"
       THEN /\ listeners' = {}
            /\ uncaught' = TRUE
            /\ UNCHANGED dataTheme
       ELSE /\ listeners' = MenuListeners \cup LangListeners \cup ThemeListeners
            /\ uncaught' = FALSE
            /\ dataTheme' = currentTheme
  /\ ev' = [NoEvent EXCEPT !.kind = "load"]
  /\ UNCHANGED <<present, inHeader, ariaExpanded, menuIsOpen, bodyOverflow, langIsOpen,
                 storedTheme, storageMode, innerWidth, markupAria, pre>>

\* The attribute write of line 44 placed inside the if of line 46.
DOMContentLoaded_ThemeNeedsToggle ==
  /\ ~loaded
  /\ loaded' = TRUE
  /\ IF storageMode = "unavailable"
       THEN /\ listeners' = MenuListeners \cup LangListeners
            /\ uncaught' = TRUE
            /\ UNCHANGED dataTheme
       ELSE /\ listeners' = MenuListeners \cup LangListeners \cup ThemeListeners
            /\ uncaught' = FALSE
            /\ dataTheme' = (IF "themeToggle" \in present THEN currentTheme ELSE dataTheme)
  /\ ev' = [NoEvent EXCEPT !.kind = "load"]
  /\ UNCHANGED <<present, inHeader, ariaExpanded, menuIsOpen, bodyOverflow, langIsOpen,
                 storedTheme, storageMode, innerWidth, markupAria, pre>>

\* The handler runs top to bottom and catches nothing: an exception at line 42
\* ends it there, with the menu and dropdown listeners attached and nothing of
\* lines 44-53 done.
DOMContentLoaded ==
  /\ ~loaded
  /\ loaded' = TRUE
  /\ IF storageMode = "unavailable"
       THEN /\ listeners' = MenuListeners \cup LangListeners
            /\ uncaught' = TRUE
            /\ UNCHANGED dataTheme
       ELSE /\ listeners' = MenuListeners \cup LangListeners \cup ThemeListeners
            /\ uncaught' = FALSE
            /\ dataTheme' = currentTheme
  /\ ev' = [NoEvent EXCEPT !.kind = "load"]
  /\ UNCHANGED <<present, inHeader, ariaExpanded, menuIsOpen, bodyOverflow, langIsOpen,
                 storedTheme, storageMode, innerWidth, markupAria, pre>>

\* A reload parses the markup again; only localStorage outlives the page.
Reload ==
  /\ loaded
  /\ ev.path = <<>>
  /\ ariaExpanded' = markupAria
  /\ menuIsOpen' = FALSE
  /\ bodyOverflow' = ""
  /\ langIsOpen' = FALSE
  /\ dataTheme' = NULL
  /\ listeners' = {}
  /\ loaded' = FALSE
  /\ uncaught' = FALSE
  /\ ev' = NoEvent
  /\ pre' = Snapshot
  /\ UNCHANGED <<present, inHeader, storedTheme, storageMode, innerWidth, markupAria>>

----------------------------------------------------------------------------
(* Click dispatch *)

Idle == ev.path = <<>>

\* The negation at line 14 applied twice over: true outside the wrapper.
InHeaderWrapper_Inverted(t) == t \notin inHeader

\* matches() in place of closest(): only the wrapper itself passes.
InHeaderWrapper_Matches(t) == t = "header"

\* e.target.closest('.header-wrapper') is non-null
InHeaderWrapper(t) == t \in inHeader

\* The nodes of the propagation path that can carry a listener.
Path(t) == <<t, "document">>

ListenerOn(node) == node \o ".click"

\* The user clicks on t: the event is created and starts at its target.
Click(t) ==
  /\ loaded
  /\ Idle
  /\ t \in present \cup {"header", "page"}
  /\ ev' = [kind |-> "click", target |-> t, path |-> Path(t), ran |-> <<>>,
            dismissed |-> FALSE]
  /\ pre' = Snapshot
  /\ uncaught' = FALSE
  /\ UNCHANGED <<present, inHeader, ariaExpanded, menuIsOpen, bodyOverflow, langIsOpen,
                 dataTheme, storedTheme, storageMode, innerWidth, listeners, loaded,
                 markupAria>>

At(node) == ev.path # <<>> /\ Head(ev.path) = node

\* The event moves on to the next node of its path.
Propagate(node) == [ev EXCEPT !.path = Tail(@), !.ran = Append(@, node)]

\* The call to stopPropagation left out.
StopPropagation_Missing(node) == Propagate(node)

\* e.stopPropagation(): no further node sees the event.
StopPropagation(node) == [ev EXCEPT !.path = <<>>, !.ran = Append(@, node)]

\* A node without a listener: the event passes through.
Bubble ==
  /\ ev.path # <<>>
  /\ ListenerOn(Head(ev.path)) \notin listeners
  /\ ev' = [ev EXCEPT !.path = Tail(@)]
  /\ UNCHANGED <<present, inHeader, ariaExpanded, menuIsOpen, bodyOverflow, langIsOpen,
                 dataTheme, storedTheme, storageMode, innerWidth, listeners, loaded,
                 uncaught, markupAria, pre>>

\* Lines 6-11.
MenuToggleClick ==
  /\ At("menuToggle")
  /\ "menuToggle.click" \in listeners
  /\ LET isExpanded == ariaExpanded = "true"
     IN /\ ariaExpanded' = BoolToString(~isExpanded)
        /\ menuIsOpen' = ClassListToggle(menuIsOpen)
        /\ bodyOverflow' = IF ~isExpanded THEN "hidden" ELSE ""
  /\ ev' = Propagate("menuToggle")
  /\ UNCHANGED <<present, inHeader, langIsOpen, dataTheme, storedTheme, storageMode,
                 innerWidth, listeners, loaded, uncaught, markupAria, pre>>

\* classList.toggle in place of classList.remove.
CloseMenu_TogglesClass ==
  /\ ariaExpanded' = "false"
  /\ menuIsOpen' = ~menuIsOpen
  /\ bodyOverflow' = ""

\* The overflow reset left out.
CloseMenu_KeepsOverflow ==
  /\ ariaExpanded' = "false"
  /\ menuIsOpen' = FALSE
  /\ UNCHANGED bodyOverflow

\* Lines 15-17 and 23-25: the menu is forced closed.
CloseMenu ==
  /\ ariaExpanded' = "false"
  /\ menuIsOpen' = FALSE
  /\ bodyOverflow' = ""

\* The dismissal extended to the dropdown: an outside click closes it too.
DocumentClick_ClosesDropdown ==
  /\ At("document")
  /\ "document.click" \in listeners
  /\ IF ~InHeaderWrapper(ev.target)
       THEN /\ CloseMenu
            /\ langIsOpen' = FALSE
            /\ ev' = [Propagate("document") EXCEPT !.dismissed = TRUE]
       ELSE /\ ev' = Propagate("document")
            /\ UNCHANGED <<ariaExpanded, menuIsOpen, bodyOverflow, langIsOpen>>
  /\ UNCHANGED <<present, inHeader, dataTheme, storedTheme, storageMode,
                 innerWidth, listeners, loaded, uncaught, markupAria, pre>>

\* Lines 13-19.
DocumentClick ==
  /\ At("document")
  /\ "document.click" \in listeners
  /\ IF ~InHeaderWrapper(ev.target)
       THEN /\ CloseMenu
            /\ ev' = [Propagate("document") EXCEPT !.dismissed = TRUE]
       ELSE /\ ev' = Propagate("document")
            /\ UNCHANGED <<ariaExpanded, menuIsOpen, bodyOverflow>>
  /\ UNCHANGED <<present, inHeader, langIsOpen, dataTheme, storedTheme, storageMode,
                 innerWidth, listeners, loaded, uncaught, markupAria, pre>>

\* The viewport test of line 33 moved into the listener and taken at each click.
LangToggleClick_LiveCheck ==
  /\ At("langToggle")
  /\ "langToggle.click" \in listeners
  /\ ev' = StopPropagation("langToggle")
  /\ langIsOpen' = (IF innerWidth <= Breakpoint THEN ClassListToggle(langIsOpen)
                                                ELSE langIsOpen)
  /\ UNCHANGED <<present, inHeader, ariaExpanded, menuIsOpen, bodyOverflow,
                 dataTheme, storedTheme, storageMode, innerWidth, listeners, loaded,
                 uncaught, markupAria, pre>>

\* Lines 34-37.
LangToggleClick ==
  /\ At("langToggle")
  /\ "langToggle.click" \in listeners
  /\ ev' = StopPropagation("langToggle")
  /\ langIsOpen' = ClassListToggle(langIsOpen)
  /\ UNCHANGED <<present, inHeader, ariaExpanded, menuIsOpen, bodyOverflow,
                 dataTheme, storedTheme, storageMode, innerWidth, listeners, loaded,
                 uncaught, markupAria, pre>>

\* A flip that maps "light" to "dark" and "dark" to "light" and keeps any
\* other value.
newTheme_KeepsUnknown(theme) ==
  IF theme = "dark" THEN "light" ELSE IF theme = "light" THEN "dark" ELSE theme

\* The new theme computed without reading the old one.
newTheme_AlwaysDark(theme) == "dark"

\* Line 49.
newTheme(theme) == IF theme = "dark" THEN "light" ELSE "dark"

\* The root attribute and the stored item, as the theme handler reads and writes them.
ThemeState == [theme |-> dataTheme, stored |-> storedTheme]

\* The call to setItem left out.
toggled_NoPersist(s) == [theme |-> newTheme(s.theme), stored |-> s.stored]

\* setItem given the theme that was read instead of the new one.
toggled_PersistOld(s) ==
  [theme |-> newTheme(s.theme),
   stored |-> IF storageMode = "ok" THEN s.theme ELSE s.stored]

\* Lines 48-51 as a function of the theme state: the attribute always gets the
\* new theme; the item gets it unless setItem throws.
toggled(s) ==
  [theme |-> newTheme(s.theme),
   stored |-> IF storageMode = "ok" THEN newTheme(s.theme) ELSE s.stored]

\* Lines 47-52. The attribute is written before the item: a setItem that throws
\* ends the handler after the attribute has changed.
ThemeToggleClick ==
  /\ At("themeToggle")
  /\ "themeToggle.click" \in listeners
  /\ dataTheme' = toggled(ThemeState).theme
  /\ storedTheme' = toggled(ThemeState).stored
  /\ uncaught' = (storageMode # "ok")
  /\ ev' = Propagate("themeToggle")
  /\ UNCHANGED <<present, inHeader, ariaExpanded, menuIsOpen, bodyOverflow, langIsOpen,
                 storageMode, innerWidth, listeners, loaded, markupAria, pre>>

----------------------------------------------------------------------------
(* Resize *)

\* >= in place of >.
ExceedsBreakpoint_Inclusive(w) == w >= Breakpoint

\* Line 22: window.innerWidth > 768
ExceedsBreakpoint(w) == w > Breakpoint

\* The viewport becomes w wide; lines 21-27 run if the listener is attached.
Resize(w) ==
  /\ loaded
  /\ Idle
  /\ innerWidth' = w
  /\ IF "window.resize" \in listeners /\ ExceedsBreakpoint(w)
       THEN CloseMenu
       ELSE UNCHANGED <<ariaExpanded, menuIsOpen, bodyOverflow>>
  /\ ev' = [NoEvent EXCEPT !.kind = "resize"]
  /\ pre' = Snapshot
  /\ uncaught' = FALSE
  /\ UNCHANGED <<present, inHeader, langIsOpen, dataTheme, storedTheme, storageMode,
                 listeners, loaded, markupAria>>

----------------------------------------------------------------------------

Next ==
  \/ DOMContentLoaded
  \/ Reload
  \/ \E t \in Targets : Click(t)
  \/ Bubble
  \/ MenuToggleClick
  \/ DocumentClick
  \/ LangToggleClick
  \/ ThemeToggleClick
  \/ \E w \in Widths : Resize(w)

Spec == Init /\ [][Next]_vars

----------------------------------------------------------------------------
(* Properties *)

\* The Menu Controller found both of its elements and attached its listeners.
MenuBound == loaded /\ "menuToggle.click" \in listeners

\* A click on t has been dispatched to the end of its path.
ClickDone(t) == ev.kind = "click" /\ ev.target = t /\ Idle

\* Position of a listener in the order in which the listeners of a click ran.
RanAt(node) == {i \in 1..Len(ev.ran) : ev.ran[i] = node}

MenuUnchanged ==
  /\ ariaExpanded = pre.aria
  /\ menuIsOpen = pre.open
  /\ bodyOverflow = pre.overflow

MenuClosed ==
  /\ ariaExpanded = "false"
  /\ menuIsOpen = FALSE
  /\ bodyOverflow = ""

\* C1: aria-expanded on the trigger is "true" exactly when .header-menu has the
\* is-open class, in every state: after every menu-trigger click, and after
\* every other event as well.
C1_AriaMatchesClass == (ariaExpanded = "true") <=> menuIsOpen

\* Reached by a second trigger click, which closed a menu the first had opened.
C1_Witness ==
  /\ ClickDone("menuToggle")
  /\ pre.open
  /\ ariaExpanded = "false"
  /\ ~menuIsOpen

\* C2: a trigger click on a closed menu ends with body overflow "hidden"; a
\* trigger click on an open menu, an outside click and a resize above 768px
\* each end with body overflow ""; and at all times overflow is "hidden"
\* exactly while the menu is open.
C2_OverflowFollowsMenu ==
  /\ bodyOverflow = (IF menuIsOpen THEN "hidden" ELSE "")
  /\ (MenuBound /\ ClickDone("menuToggle") /\ ~pre.open) =>
        (menuIsOpen /\ bodyOverflow = "hidden")
  /\ (MenuBound /\ ClickDone("menuToggle") /\ pre.open) =>
        (~menuIsOpen /\ bodyOverflow = "")
  /\ (MenuBound /\ ev.kind = "click" /\ ev.dismissed) =>
        (~menuIsOpen /\ bodyOverflow = "")
  /\ (MenuBound /\ ev.kind = "resize" /\ innerWidth > Breakpoint) =>
        (~menuIsOpen /\ bodyOverflow = "")

\* An outside click has closed an open menu and released the scroll lock.
C2_Witness ==
  /\ ev.kind = "click"
  /\ ev.dismissed
  /\ pre.open
  /\ pre.overflow = "hidden"
  /\ ~menuIsOpen
  /\ bodyOverflow = ""

\* C3: after a resize to more than 768px the menu is closed (aria-expanded
\* "false", no is-open, overflow ""), whatever it was before; after a resize to
\* 768px or less the menu is exactly as it was before the resize.
C3_ResizeClosesOnlyAboveBreakpoint ==
  (MenuBound /\ ev.kind = "resize") =>
     IF innerWidth > Breakpoint THEN MenuClosed ELSE MenuUnchanged

\* A resize to 769px has closed a menu that was open.
C3_Witness ==
  /\ MenuBound
  /\ ev.kind = "resize"
  /\ innerWidth > Breakpoint
  /\ pre.open
  /\ MenuClosed

\* C4: on a click on the trigger, the trigger's listener runs first and the
\* document's listener second, the document's listener does not dismiss, and
\* the menu ends toggled once: open if it was closed, closed if it was open.
C4_TriggerClickTogglesOnce ==
  (MenuBound /\ ClickDone("menuToggle")) =>
     /\ ev.ran = <<"menuToggle", "document">>
     /\ ~ev.dismissed
     /\ menuIsOpen = ~pre.open
     /\ ariaExpanded = BoolToString(pre.aria # "true")

\* A click on the trigger of a closed menu has left the menu open.
C4_Witness ==
  /\ MenuBound
  /\ ClickDone("menuToggle")
  /\ ~pre.open
  /\ menuIsOpen
  /\ ariaExpanded = "true"
  /\ RanAt("document") = {2}

\* The Theme Controller attached its click listener.
ThemeBound == loaded /\ "themeToggle.click" \in listeners

\* The Dropdown Controller attached its click listener: both elements exist and
\* the viewport was at most 768px wide at initialization.
LangBound == loaded /\ "langToggle.click" \in listeners

\* C5 as stated: from any state after initialization, two theme-toggle clicks
\* return data-theme and the persisted value to what they were.
C5_ToggleTwiceIsIdentity ==
  ThemeBound => toggled(toggled(ThemeState)) = ThemeState

\* C5 as amended: from any state after initialization in which data-theme is
\* "light" or "dark" and the persisted value equals it, two theme-toggle clicks
\* return data-theme and the persisted value to what they were.
C5_ToggleTwiceIsIdentityOnceInSync ==
  (ThemeBound /\ dataTheme \in {"light", "dark"} /\ storedTheme = dataTheme) =>
     toggled(toggled(ThemeState)) = ThemeState

\* A theme-toggle click has been handled and left both values at "light".
C5_Witness ==
  /\ ThemeBound
  /\ ClickDone("themeToggle")
  /\ storageMode = "ok"
  /\ dataTheme = "light"
  /\ storedTheme = "light"
  /\ toggled(ThemeState) = [theme |-> "dark", stored |-> "dark"]

\* C6 as stated: once initialization has completed, data-theme equals the
\* persisted value in every state.
C6_AttributeEqualsStored ==
  (loaded /\ storageMode = "ok") => dataTheme = storedTheme

\* C6 as amended: once initialization has completed, and with storage writes
\* succeeding, data-theme equals the persisted value whenever a non-empty value
\* is persisted; while none is persisted data-theme is "light".
C6_AttributeEqualsStoredWhenPresent ==
  (loaded /\ storageMode = "ok") =>
     IF Truthy(storedTheme) THEN dataTheme = storedTheme ELSE dataTheme = "light"

\* A theme-toggle click has set data-theme to "dark" and persisted it.
C6_Witness ==
  /\ storageMode = "ok"
  /\ ClickDone("themeToggle")
  /\ ev.ran = <<"themeToggle">> \/ ev.ran = <<"themeToggle", "document">>
  /\ dataTheme = "dark"
  /\ storedTheme = "dark"

\* C7: when reading storage throws during initialization, data-theme is
\* "light" right after initialization and "light" or "dark" from then on, and
\* the theme toggle, if the page has one, has its click listener.
C7_ReadFailureFallsBackToLight ==
  (loaded /\ storageMode = "unavailable") =>
     /\ ev.kind = "load" => dataTheme = "light"
     /\ dataTheme \in {"light", "dark"}
     /\ "themeToggle" \in present => "themeToggle.click" \in listeners

\* C8: when storage is unavailable at the time of a theme-toggle click, the
\* click is handled without an uncaught exception and has flipped data-theme,
\* which is therefore "light" or "dark" once the click is done.
C8_ToggleSurvivesStorageFailure ==
  (storageMode # "ok" /\ "themeToggle" \in present /\ ClickDone("themeToggle")) =>
     /\ dataTheme \in {"light", "dark"}
     /\ ~uncaught

\* C9: with no 'theme' item in storage, data-theme is "light" when
\* initialization ends.
C9_NoStoredThemeGivesLight ==
  (ev.kind = "load" /\ storageMode # "unavailable" /\ storedTheme = NULL) =>
     dataTheme = "light"

\* Initialization has run on a profile with nothing stored.
C9_Witness ==
  /\ loaded
  /\ ev.kind = "load"
  /\ storageMode = "ok"
  /\ storedTheme = NULL
  /\ dataTheme = "light"

\* C10: with the dropdown listener attached (viewport at most 768px wide at
\* initialization), a click on the language toggle flips is-open on
\* .lang-dropdown, never reaches the document's listener, and leaves the
\* menu's aria-expanded, is-open and body overflow as they were.
C10_LangClickLeavesMenuAlone ==
  (LangBound /\ ClickDone("langToggle")) =>
     /\ langIsOpen = ~pre.lang
     /\ ev.ran = <<"langToggle">>
     /\ ~ev.dismissed
     /\ MenuUnchanged

\* The language toggle lies outside .header-wrapper and was clicked while the
\* menu was open: the dropdown opened and the menu stayed open.
C10_Witness ==
  /\ LangBound
  /\ MenuBound
  /\ ClickDone("langToggle")
  /\ "langToggle" \notin inHeader
  /\ pre.open
  /\ menuIsOpen
  /\ bodyOverflow = "hidden"
  /\ ~pre.lang
  /\ langIsOpen

\* Both elements of the Menu Controller are in the page.
MenuElements == "menuToggle" \in present /\ "headerMenu" \in present

\* C11: when .menu-toggle or .header-menu is absent, none of the three menu
\* listeners is attached, so aria-expanded, is-open and body overflow stay as
\* the markup has them through every trigger click, document click and
\* resize; and initialization ends without an exception (storage readable).
C11_MissingElementDisablesMenu ==
  (loaded /\ ~MenuElements) =>
     /\ listeners \cap {"menuToggle.click", "document.click", "window.resize"} = {}
     /\ ariaExpanded = markupAria
     /\ ~menuIsOpen
     /\ bodyOverflow = ""
     /\ (ev.kind = "load" /\ storageMode # "unavailable") => ~uncaught

\* The trigger exists without its menu container and has been clicked: the
\* click went through both nodes of its path and changed nothing.
C11_Witness ==
  /\ "menuToggle" \in present
  /\ "headerMenu" \notin present
  /\ ClickDone("menuToggle")
  /\ ev.ran = <<>>
  /\ ariaExpanded = markupAria
  /\ innerWidth > Breakpoint

\* Initialization has just run on a page that was reloaded: pre holds the
\* state of the page before the reload, whose data-theme was set by its own
\* initialization.
LoadedAfterReload == ev.kind = "load" /\ pre.theme # NULL

\* C12: with storage working, when initialization has run after a reload,
\* data-theme is what it was just before the reload, whatever theme-toggle
\* clicks came before; the menu and the dropdown are closed, whether or not
\* they were open before the reload.
C12_ThemeSurvivesReload ==
  (LoadedAfterReload /\ storageMode = "ok") =>
     /\ dataTheme = pre.theme
     /\ ~menuIsOpen
     /\ ariaExpanded # "true"
     /\ bodyOverflow = ""
     /\ ~langIsOpen

\* The page was reloaded with theme "dark", menu and dropdown open; it came
\* back with theme "dark", menu and dropdown closed.
C12_Witness ==
  /\ LoadedAfterReload
  /\ storageMode = "ok"
  /\ pre.theme = "dark"
  /\ dataTheme = "dark"
  /\ pre.open
  /\ pre.lang
  /\ ~menuIsOpen
  /\ ~langIsOpen

\* A click has been dispatched to the end of its path.
AnyClickDone == ev.kind = "click" /\ Idle

\* C13 as stated: after any click whose target is outside .header-wrapper the
\* menu is closed; after a click inside .header-wrapper that is not on the
\* trigger the menu is as it was.
C13_OutsideClickCloses ==
  (MenuBound /\ AnyClickDone) =>
     /\ ev.target \notin inHeader => MenuClosed
     /\ (ev.target \in inHeader /\ ev.target # "menuToggle") => MenuUnchanged

\* The click was on .lang-toggle and the dropdown listener stopped it.
StoppedByDropdown == ev.target = "langToggle" /\ "langToggle.click" \in listeners

\* C13 as amended: after any click whose target is outside .header-wrapper,
\* except a click on .lang-toggle that the dropdown listener stopped, the menu
\* is closed (aria-expanded "false", no is-open, overflow ""), whether it was
\* open or not; after a click inside .header-wrapper that is not on the
\* trigger, and after a stopped click on .lang-toggle, the menu is as it was.
C13_OutsideClickClosesUnlessStopped ==
  (MenuBound /\ AnyClickDone) =>
     /\ (ev.target \notin inHeader /\ ~StoppedByDropdown) => MenuClosed
     /\ (ev.target \in inHeader /\ ev.target # "menuToggle") => MenuUnchanged
     /\ StoppedByDropdown => MenuUnchanged

\* A click on the page outside the header found the menu closed with no
\* aria-expanded attribute and left it closed with aria-expanded "false".
C13_Witness ==
  /\ MenuBound
  /\ ClickDone("page")
  /\ ev.ran = <<"document">>
  /\ pre.aria = NULL
  /\ ~pre.open
  /\ MenuClosed

\* The step in which the trigger's click listener runs.
TriggerStep == At("menuToggle") /\ ev'.ran = Append(ev.ran, "menuToggle")

\* The step in which the document's click listener dismisses the menu.
DismissStep == At("document") /\ ev.target \notin inHeader /\ ev'.dismissed

\* The step in which the viewport is resized to more than 768px.
ResizeAboveStep == ev'.kind = "resize" /\ Idle /\ innerWidth' > Breakpoint

\* C14: within a page session the menu goes from closed to open only in a
\* step of the trigger's click listener, and from open to closed only in such
\* a step, in a dismissal by the document's click listener or in a resize to
\* more than 768px; the trigger's listener always moves it to the other state.
C14_MenuTransitions ==
  [][(loaded /\ loaded') =>
       /\ (~menuIsOpen /\ menuIsOpen') => TriggerStep
       /\ (menuIsOpen /\ ~menuIsOpen') => (TriggerStep \/ DismissStep \/ ResizeAboveStep)
       /\ TriggerStep => menuIsOpen' = ~menuIsOpen]_vars

\* A resize to more than 768px ran the close statements on a closed menu
\* (aria-expanded went from absent to "false") and the menu stayed closed.
C14_Witness ==
  /\ MenuBound
  /\ ev.kind = "resize"
  /\ innerWidth > Breakpoint
  /\ pre.aria = NULL
  /\ ~pre.open
  /\ ariaExpanded = "false"
  /\ ~menuIsOpen

\* Both elements of the Dropdown Controller are in the page.
LangElements == "langToggle" \in present /\ "langDropdown" \in present

\* C15: when initialization ends, the dropdown listener is attached exactly
\* if both elements exist and the viewport is at most 768px wide at that
\* moment; no later event of the session attaches or detaches a listener; and
\* a click on the language toggle flips is-open on the dropdown exactly if the
\* listener was attached, whatever the viewport width is at the click.
C15_ViewportCheckedOnce ==
  /\ [](ev.kind = "load" =>
          (LangBound <=> (LangElements /\ innerWidth <= Breakpoint)))
  /\ [][(loaded /\ loaded') => listeners' = listeners]_vars
  /\ []((LangElements /\ loaded /\ ClickDone("langToggle")) =>
          langIsOpen = (IF "langToggle.click" \in listeners THEN ~pre.lang ELSE pre.lang))

\* Initialized at 768px or less, then resized above 768px: a click on the
\* language toggle still opened the dropdown.
C15_Witness ==
  /\ LangBound
  /\ innerWidth > Breakpoint
  /\ ClickDone("langToggle")
  /\ ~pre.lang
  /\ langIsOpen

\* C16: once initialization has completed, data-theme is "light" or "dark" in
\* every state, whatever the 'theme' item held when the page loaded.
C16_ThemeIsLightOrDark ==
  (loaded /\ storageMode = "ok") => dataTheme \in {"light", "dark"}

\* The step in which the theme toggle's click listener runs.
ThemeStep == At("themeToggle") /\ ev'.ran = Append(ev.ran, "themeToggle")

\* The step in which the language toggle's click listener runs.
LangStep == At("langToggle") /\ ev'.ran = Append(ev.ran, "langToggle")

\* The step in which the document's click listener runs.
DocumentStep == At("document") /\ ev'.ran = Append(ev.ran, "document")

\* A resize.
ResizeStep == Idle /\ ev'.kind = "resize"

\* C17: within a page session, the trigger's listener, the document's listener
\* and a resize leave data-theme, the persisted theme and the dropdown's
\* is-open as they are; the theme listener leaves the dropdown's is-open and
\* the menu's three values as they are, and no click on the theme toggle ends
\* with a menu open that was closed; the dropdown's is-open changes in no step
\* but the language toggle's listener, and data-theme and the persisted theme
\* in no step but the theme toggle's listener.
C17_ControllersWriteOwnState ==
  /\ [][(loaded /\ loaded') =>
          /\ (TriggerStep \/ DocumentStep \/ ResizeStep) =>
                UNCHANGED <<dataTheme, storedTheme, langIsOpen>>
          /\ ThemeStep => UNCHANGED <<langIsOpen, ariaExpanded, menuIsOpen, bodyOverflow>>
          /\ langIsOpen' # langIsOpen => LangStep
          /\ (dataTheme' # dataTheme \/ storedTheme' # storedTheme) => ThemeStep]_vars
  /\ []((loaded /\ ClickDone("themeToggle")) => (menuIsOpen => pre.open))

\* A click on a theme toggle that lies outside .header-wrapper, with menu and
\* dropdown open: the theme changed, the document's listener dismissed the
\* menu, the dropdown stayed open.
C17_Witness ==
  /\ ThemeBound
  /\ MenuBound
  /\ ClickDone("themeToggle")
  /\ ev.ran = <<"themeToggle", "document">>
  /\ ev.dismissed
  /\ dataTheme # pre.theme
  /\ pre.open
  /\ ~menuIsOpen
  /\ pre.lang
  /\ langIsOpen

\* C18: with storage working, once the theme listener has handled a click the
\* persisted 'theme' equals data-theme and both are "light" or "dark",
\* whatever the item held when the page loaded.
C18_ClickLeavesThemeInSync ==
  (storageMode = "ok" /\ ThemeBound /\ ClickDone("themeToggle")) =>
     /\ storedTheme = dataTheme
     /\ dataTheme \in {"light", "dark"}

\* The page loaded with "sepia" stored and mirrored; one click on the theme
\* toggle has left "dark" in both places.
C18_Witness ==
  /\ storageMode = "ok"
  /\ ThemeBound
  /\ ClickDone("themeToggle")
  /\ pre.theme = "sepia"
  /\ dataTheme = "dark"
  /\ storedTheme = "dark"

\* C19: after an initialization whose storage read threw, the menu listeners
\* are attached if both menu elements exist and the dropdown listener if both
\* dropdown elements exist and the viewport was at most 768px wide; a trigger
\* click toggles the menu, a click outside the header closes it, a resize
\* closes it above 768px and leaves it alone otherwise, and a click on the
\* language toggle flips the dropdown and leaves the menu alone.
C19_ReadFailureSparesMenuAndDropdown ==
  (loaded /\ storageMode = "unavailable") =>
     /\ MenuElements =>
          {"menuToggle.click", "document.click", "window.resize"} \subseteq listeners
     /\ ev.kind = "load" =>
          ("langToggle.click" \in listeners <=> (LangElements /\ innerWidth <= Breakpoint))
     /\ (MenuElements /\ ClickDone("menuToggle")) =>
          /\ menuIsOpen = ~pre.open
          /\ ariaExpanded = BoolToString(~pre.open)
          /\ bodyOverflow = (IF pre.open THEN "" ELSE "hidden")
     /\ (MenuElements /\ ClickDone("page")) => MenuClosed
     /\ (MenuElements /\ ev.kind = "resize") =>
          IF innerWidth > Breakpoint THEN MenuClosed ELSE MenuUnchanged
     /\ (LangElements /\ "langToggle.click" \in listeners /\ ClickDone("langToggle")) =>
          (langIsOpen = ~pre.lang /\ MenuUnchanged)

\* The storage read threw, data-theme was never set, and still the menu was
\* opened by its trigger and the dropdown by the language toggle.
C19_Witness ==
  /\ loaded
  /\ storageMode = "unavailable"
  /\ dataTheme = NULL
  /\ ClickDone("langToggle")
  /\ ~pre.lang
  /\ langIsOpen
  /\ menuIsOpen
  /\ bodyOverflow = "hidden"

\* C20: with storage readable, when initialization ends data-theme is the
\* stored theme, or "light" when none (or an empty one) is stored, whichever
\* of the five elements the page has, none included; and in a page without
\* .theme-toggle no later step of the session changes data-theme.
C20_ThemeInitNeedsNoElement ==
  /\ []((ev.kind = "load" /\ storageMode # "unavailable") =>
          dataTheme = (IF storedTheme \in {NULL, ""} THEN "light" ELSE storedTheme))
  /\ [][(loaded /\ loaded' /\ "themeToggle" \notin present) =>
          dataTheme' = dataTheme]_vars

\* A page with none of the five elements and "dark" stored: data-theme was set
\* to "dark" and a later click on the page left it so.
C20_Witness ==
  /\ present = {}
  /\ loaded
  /\ ClickDone("page")
  /\ storedTheme = "dark"
  /\ dataTheme = "dark"

====
